---- MODULE Spec2Model ----
(***************************************************************************)
(* A model of the multi-agent orchestration backend:                       *)
(*   backend/app/agent.py    make_llm, persona_router_node,                *)
(*                           model_router_node, agent_node,                *)
(*                           should_continue, get_response                 *)
(*   backend/app/fast_api.py agent_endpoint                                *)
(*   backend/app/tools.py    clean_snippet, tavily_search                  *)
(*                                                                         *)
(* Spec follows one request from agent_endpoint to its response,           *)
(* SpecUnits applies the functions on their own to drawn inputs, SpecPair  *)
(* interleaves the graph steps of two calls of get_response.               *)
(*                                                                         *)
(* Text is a sequence of one-character strings, so that str.lower(),       *)
(* str.upper() and the substring test `k in query` are computed, not       *)
(* assumed.  Model identifiers are atomic strings.                         *)
(*                                                                         *)
(* get_response calls app.invoke(initial_state) with no config; the graph  *)
(* is modelled as get_response wires it (nodes, edges, the conditional     *)
(* edge), with no step budget of its own.                                  *)
(***************************************************************************)
EXTENDS Integers, Sequences, FiniteSets, TLC

VARIABLES
    pc,                      \* where the request is: endpoint, graph node, end
    req,                     \* the RequestState posted to /agent
    groq_api_key,            \* os.getenv("GROQ_API_KEY") is set
    backend,                 \* how the generation backend answers
    messages,                \* AgentState["messages"]
    persona,                 \* AgentState["persona"]
    selected_model_name,     \* AgentState["selected_model_name"]
    selected_model_provider, \* AgentState["selected_model_provider"]
    llm,                     \* the last ChatGroq built and how it was invoked
    result,                  \* what get_response returned
    error,                   \* the exception that left get_response
    http,                    \* the response agent_endpoint sent
    hist,                    \* history: how often each step ran or wrote
    unit,                    \* a function applied on its own (SpecUnits)
    calls,                   \* the locals of each concurrent get_response (SpecPair)
    states                   \* the AgentState of each concurrent get_response

vars == <<pc, req, groq_api_key, backend, messages, persona, selected_model_name,
          selected_model_provider, llm, result, error, http, hist, unit,
          calls, states>>

\* ------------------------------------------------------------------ bounds

\* Longest text drawn for the routers applied on their own.
MaxLen == 3
\* Most caller-supplied turns in one request.
MaxTurns == 2
\* Most tool rounds the modelled backend asks for before it answers plainly.
MaxToolRounds == 2
\* Most tool calls the modelled backend puts in one assistant message.
MaxToolCalls == 1

\* -------------------------------------------------------------------- text

UpperLetters == <<"A","B","C","D","E","F","G","H","I","J","K","L","M",
                  "N","O","P","Q","R","S","T","U","V","W","X","Y","Z">>
LowerLetters == <<"a","b","c","d","e","f","g","h","i","j","k","l","m",
                  "n","o","p","q","r","s","t","u","v","w","x","y","z">>

\* One character of str.lower().
LowerChar(c) ==
    IF \E i \in 1..26 : UpperLetters[i] = c
    THEN LowerLetters[CHOOSE i \in 1..26 : UpperLetters[i] = c]
    ELSE c

\* One character of str.upper().
UpperChar(c) ==
    IF \E i \in 1..26 : LowerLetters[i] = c
    THEN UpperLetters[CHOOSE i \in 1..26 : LowerLetters[i] = c]
    ELSE c

\* str.lower()
Lower(s) == [i \in 1..Len(s) |-> LowerChar(s[i])]

\* str.upper()
Upper(s) == [i \in 1..Len(s) |-> UpperChar(s[i])]

\* Python's `k in q` on strings: k is a contiguous substring of q.
Contains(q, k) ==
    \E i \in 0..(Len(q) - Len(k)) : SubSeq(q, i + 1, i + Len(k)) = k

\* Sequences over S of length at most n.
SeqUpTo(S, n) == UNION {[1..k -> S] : k \in 0..n}

\* ------------------------------------------------------------- make_llm

\* A value a key of the state dict does not have yet (as a text: AbsentText).
Absent == "<absent>"
AbsentText == <<Absent>>

DEPRECATED_MODEL_MAP ==
    [k \in {"llama3-8b-8192", "llama3-70b-8192", "llama-3.1-70b-versatile"} |->
        CASE k = "llama3-8b-8192" -> "llama-3.1-8b-instant"
          [] k = "llama3-70b-8192" -> "llama-3.1-70b-versatile"
          [] k = "llama-3.1-70b-versatile" -> "llama-3.3-70b-versatile"]

GROQ == <<"G","R","O","Q">>

\* make_llm without the check of GROQ_API_KEY.
make_llm_unchecked_key(model_name, provider, key) ==
    LET name == IF model_name \in DOMAIN DEPRECATED_MODEL_MAP
                THEN DEPRECATED_MODEL_MAP[model_name]
                ELSE model_name
    IN  IF Upper(provider) # GROQ
        THEN [ok |-> FALSE, model |-> Absent, error |-> "ValueError: Unknown model provider"]
        ELSE [ok |-> TRUE, model |-> name, error |-> Absent]

\* make_llm: the ChatGroq it builds ([ok |-> TRUE, model]) or the ValueError
\* it raises.  key is whether GROQ_API_KEY is set.
make_llm(model_name, provider, key) ==
    LET name == IF model_name \in DOMAIN DEPRECATED_MODEL_MAP
                THEN DEPRECATED_MODEL_MAP[model_name]
                ELSE model_name
    IN  IF Upper(provider) # GROQ
        THEN [ok |-> FALSE, model |-> Absent, error |-> "ValueError: Unknown model provider"]
        ELSE IF ~key
        THEN [ok |-> FALSE, model |-> Absent, error |-> "ValueError: GROQ_API_KEY not found"]
        ELSE [ok |-> TRUE, model |-> name, error |-> Absent]

\* ------------------------------------------------------------- messages

\* Message content: a str, or a list of typed parts (multimodal).
StrContent(t) == [kind |-> "str", text |-> t, parts |-> <<>>]
ListContent(ps) == [kind |-> "list", text |-> <<>>, parts |-> ps]
TextPart(t) == [type |-> "text", text |-> t]
ImagePart == [type |-> "image_url", text |-> <<>>]

HumanMessage(c) == [role |-> "human", content |-> c, tool_calls |-> 0]
AIMessage(t, n) == [role |-> "ai", content |-> StrContent(t), tool_calls |-> n]
ToolMessage(t) == [role |-> "tool", content |-> StrContent(t), tool_calls |-> 0]
SystemMessage(t) == [role |-> "system", content |-> StrContent(t), tool_calls |-> 0]

\* ---------------------------------------------------- persona_router_node

financial_keywords == <<
    <<"s","t","o","c","k">>, <<"m","a","r","k","e","t">>,
    <<"f","i","n","a","n","c","e">>, <<"n","e","w","s">>,
    <<"c","o","m","p","a","n","i","e","s">>, <<"t","o","p"," ","5">>,
    <<"t","o","p"," ","1","0">>, <<"p","r","i","c","e">>,
    <<"b","i","t","c","o","i","n">>, <<"c","r","y","p","t","o">>,
    <<"i","n","v","e","s","t","m","e","n","t">>, <<"r","a","t","e">>,
    <<"u","s","d">>, <<"i","n","r">>,
    <<"b","u","s","i","n","e","s","s">>, <<"e","c","o","n","o","m","i","c">>,
    <<"l","a","t","e","s","t">>, <<"l","a","r","g","e","s","t">>,
    <<"r","a","n","k","i","n","g">> >>

\* The loop over the parts of a list content: the query is the lower-cased
\* text of the last text part, has_image is set by any image_url part.
RECURSIVE ScanParts(_, _, _, _)
ScanParts(parts, i, query, has_image) ==
    IF i > Len(parts) THEN [query |-> query, has_image |-> has_image]
    ELSE IF parts[i].type = "text"
         THEN ScanParts(parts, i + 1, Lower(parts[i].text), has_image)
    ELSE IF parts[i].type = "image_url"
         THEN ScanParts(parts, i + 1, query, TRUE)
    ELSE ScanParts(parts, i + 1, query, has_image)

\* persona_router_node matching the keywords against the text as typed.
persona_router_node_as_typed(msgs) ==
    IF Len(msgs) = 0
    THEN [ok |-> FALSE, persona |-> Absent, error |-> "IndexError: list index out of range"]
    ELSE
    LET last_message == msgs[Len(msgs)]
        scan == IF last_message.content.kind = "list"
                THEN ScanParts(last_message.content.parts, 1, <<>>, FALSE)
                ELSE [query |-> last_message.content.text, has_image |-> FALSE]
        decision ==
            IF scan.has_image THEN "Vision Agent"
            ELSE IF \E j \in 1..Len(financial_keywords) :
                        Contains(scan.query, financial_keywords[j])
                 THEN "Financial Analyst"
            ELSE "Creative Writer"
    IN  [ok |-> TRUE, persona |-> decision, error |-> Absent]

\* persona_router_node: the update it returns, or the IndexError of
\* state["messages"][-1] on an empty list.
persona_router_node(msgs) ==
    IF Len(msgs) = 0
    THEN [ok |-> FALSE, persona |-> Absent, error |-> "IndexError: list index out of range"]
    ELSE
    LET last_message == msgs[Len(msgs)]
        scan == IF last_message.content.kind = "list"
                THEN ScanParts(last_message.content.parts, 1, <<>>, FALSE)
                ELSE [query |-> Lower(last_message.content.text), has_image |-> FALSE]
        decision ==
            IF scan.has_image THEN "Vision Agent"
            ELSE IF \E j \in 1..Len(financial_keywords) :
                        Contains(scan.query, financial_keywords[j])
                 THEN "Financial Analyst"
            ELSE "Creative Writer"
    IN  [ok |-> TRUE, persona |-> decision, error |-> Absent]

\* ------------------------------------------------------ model_router_node

\* The loop of model_router_node over the parts: it stops at the first image.
HasImagePart(content) ==
    /\ content.kind = "list"
    /\ \E i \in 1..Len(content.parts) : content.parts[i].type = "image_url"

VisionModel == "meta-llama/Llama-4-scout-17b-16e-instruct"

\* model_router_node looking for the image in the first message.
model_router_node_first_message(msgs, p) ==
    IF Len(msgs) = 0
    THEN [ok |-> FALSE, name |-> Absent, provider |-> AbsentText,
          error |-> "IndexError: list index out of range"]
    ELSE
    LET has_image == HasImagePart(msgs[1].content)
        chosen_model_name ==
            IF has_image THEN VisionModel
            ELSE IF p = "Financial Analyst" THEN "llama-3.3-70b-versatile"
            ELSE IF p = "Creative Writer" THEN "llama-3.1-8b-instant"
            ELSE Absent
    IN  IF chosen_model_name = Absent
        THEN [ok |-> FALSE, name |-> Absent, provider |-> AbsentText,
              error |-> "ValueError: Could not determine a suitable model"]
        ELSE [ok |-> TRUE, name |-> chosen_model_name, provider |-> GROQ,
              error |-> Absent]

\* model_router_node: the update it returns, or the error it raises.
model_router_node(msgs, p) ==
    IF Len(msgs) = 0
    THEN [ok |-> FALSE, name |-> Absent, provider |-> AbsentText,
          error |-> "IndexError: list index out of range"]
    ELSE
    LET has_image == HasImagePart(msgs[Len(msgs)].content)
        chosen_model_name ==
            IF has_image THEN VisionModel
            ELSE IF p = "Financial Analyst" THEN "llama-3.3-70b-versatile"
            ELSE IF p = "Creative Writer" THEN "llama-3.1-8b-instant"
            ELSE Absent
    IN  IF chosen_model_name = Absent
        THEN [ok |-> FALSE, name |-> Absent, provider |-> AbsentText,
              error |-> "ValueError: Could not determine a suitable model"]
        ELSE [ok |-> TRUE, name |-> chosen_model_name, provider |-> GROQ,
              error |-> Absent]

\* ---------------------------------------------------------- agent_node

\* The system prompt agent_node puts before the messages it sends.
system_prompt_for(p) ==
    IF p = "Vision Agent" THEN Absent
    ELSE IF p = "Financial Analyst" THEN "You are a professional Data Analyst..."
    ELSE IF p = "Creative Writer" THEN "You are a helpful creative writing assistant."
    ELSE "You are a helpful assistant."

\* tools_bound with the binding made for every persona but "Creative Writer".
tools_bound_unless_writer(p) == p # "Creative Writer"

\* Whether agent_node binds tavily_search to the model (llm.bind_tools).
tools_bound(p) == p = "Financial Analyst"

\* The messages agent_node hands to invoke: the raw messages for the Vision
\* Agent, the persona's system prompt in front of them otherwise.
invoke_input(p, msgs) ==
    IF p = "Vision Agent" THEN msgs
    ELSE <<SystemMessage(<<system_prompt_for(p)>>)>> \o msgs

\* agent_update handing back what was sent along with the answer.
agent_update_with_input(sent, ai_response) == sent \o <<ai_response>>

\* The update agent_node returns: {"messages": [ai_response]}.
agent_update(sent, ai_response) == <<ai_response>>

\* add_messages putting the new messages first.
add_messages_in_front(left, right) == right \o left

\* The reducer of AgentState["messages"]: new messages are appended.
add_messages(left, right) == left \o right

Digits == <<"0","1","2","3","4","5","6","7","8","9">>

\* The content of the k-th answer of the backend: answers differ from one
\* another and from every user text.
ReplyText(k) == <<"#", Digits[(k % 10) + 1]>>

\* The tool-call counts the backend may put in its next answer.
ToolCallChoices(bound, rounds) ==
    IF rounds >= MaxToolRounds THEN {0}
    ELSE IF backend = "never" THEN {0}
    ELSE IF backend = "when_bound" /\ ~bound THEN {0}
    ELSE 0..MaxToolCalls

\* ------------------------------------------------------ should_continue

\* should_continue going back to "agent" where it should end.
should_continue_resume(msgs) ==
    LET last_message == msgs[Len(msgs)]
    IN  IF last_message.tool_calls > 0 THEN "tools" ELSE "agent"

\* should_continue asking for more than one tool call.
should_continue_many(msgs) ==
    LET last_message == msgs[Len(msgs)]
    IN  IF last_message.tool_calls > 1 THEN "tools"
        ELSE IF last_message.role = "tool" THEN "agent"
        ELSE "__end__"

should_continue(msgs) ==
    LET last_message == msgs[Len(msgs)]
    IN  IF last_message.tool_calls > 0 THEN "tools"
        ELSE IF last_message.role = "tool" THEN "agent"
        ELSE "__end__"

\* edge_after_agent with "__end__" wired back to "agent".
edge_after_agent_rewired(msgs) ==
    LET d == should_continue(msgs)
    IN  CASE d = "tools" -> "tools"
          [] d = "agent" -> "agent"
          [] d = "__end__" -> "agent"

\* The conditional edge get_response adds after "agent".
edge_after_agent(msgs) ==
    LET d == should_continue(msgs)
    IN  CASE d = "tools" -> "tools"
          [] d = "agent" -> "agent"
          [] d = "__end__" -> "END"

\* ---------------------------------------------------------- tavily_search

\* What one tavily_search call hands back as the tool message: the result
\* list, or the one-element error list (it never raises).
ToolOutputs == {<<"r","e","s","u","l","t","s">>, <<"e","r","r","o","r">>}

\* ToolNode(TOOLS): one tool message per tool call of the last message.
ToolMessages(n) == [1..n -> {ToolMessage(t) : t \in ToolOutputs}]

\* ------------------------------------------------------------ get_response

ImageNone == "<None>"
Apology == <<"Sorry, I encountered an issue processing the final response.">>

\* str(x) of a message content: a str is itself, a list is its repr.
RECURSIVE ReprParts(_, _)
ReprParts(parts, i) ==
    IF i > Len(parts) THEN <<>>
    ELSE <<"{", parts[i].type, ":">> \o parts[i].text \o <<"}">> \o ReprParts(parts, i + 1)

Str(content) ==
    IF content.kind = "str" THEN content.text
    ELSE <<"[">> \o ReprParts(content.parts, 1) \o <<"]">>

\* human_messages of get_response: one HumanMessage per text, the image (when
\* image_data is truthy and there is a message) attached to the last one.
human_messages(texts, image_data) ==
    LET plain == [i \in 1..Len(texts) |-> HumanMessage(StrContent(texts[i]))]
        truthy == image_data # ImageNone /\ image_data # ""
    IN  IF truthy /\ Len(plain) > 0
        THEN [plain EXCEPT ![Len(plain)] =
                 HumanMessage(ListContent(<<TextPart(texts[Len(texts)]), ImagePart>>))]
        ELSE plain

\* initial_state with the caller's system prompt put in front of the turns.
initial_state_with_prompt(request) ==
    LET turns == human_messages(request.messages, request.image_data)
    IN  [messages |-> IF request.system_prompt = "" THEN turns
                      ELSE <<SystemMessage(<<request.system_prompt>>)>> \o turns,
         persona |-> Absent,
         selected_model_name |-> Absent,
         selected_model_provider |-> AbsentText]

\* initial_state of get_response: the human messages and nothing else;
\* system_prompt and allow_search are not read.
initial_state(request) ==
    [messages |-> human_messages(request.messages, request.image_data),
     persona |-> Absent,
     selected_model_name |-> Absent,
     selected_model_provider |-> AbsentText]

\* final_response reading the first message.
final_response_first(msgs) ==
    IF Len(msgs) = 0 THEN Apology ELSE Str(msgs[1].content)

\* The last lines of get_response: the content of the last message as a str,
\* or the apology on IndexError.
final_response(msgs) ==
    IF Len(msgs) = 0 THEN Apology ELSE Str(msgs[Len(msgs)].content)

\* static_edge with "tools" wired to "persona_router".
static_edge_reroute(node) ==
    CASE node = "START" -> "persona_router"
      [] node = "persona_router" -> "model_router"
      [] node = "model_router" -> "agent"
      [] node = "tools" -> "persona_router"

\* The edges get_response adds with add_edge.
static_edge(node) ==
    CASE node = "START" -> "persona_router"
      [] node = "persona_router" -> "model_router"
      [] node = "model_router" -> "agent"
      [] node = "tools" -> "agent"

\* ------------------------------------------------------------------ state

\* The texts a caller sends in the modelled requests: small talk, and a
\* financial keyword in upper case.
SampleTexts == {<<"h","i">>, <<"U","S","D">>}

Requests ==
    [system_prompt : {"", "be brief"},
     messages : SeqUpTo(SampleTexts, MaxTurns),
     allow_search : BOOLEAN,
     image_data : {ImageNone, "", "aGk="}]

NoRequest ==
    [system_prompt |-> "", messages |-> <<>>, allow_search |-> FALSE,
     image_data |-> ImageNone]

NoLlm == [model |-> Absent, bound |-> FALSE, system_prompt |-> Absent, sent |-> <<>>]
NoHttp == [status |-> 0, body |-> AbsentText]
NoHist == [agent |-> 0, tools |-> 0, invoke |-> 0,
           persona_writes |-> 0, model_writes |-> 0]
NoUnit == [fn |-> "none"]
NoCalls == <<>>
NoStates == <<>>

\* Everything a request has not touched yet.
Fresh ==
    /\ messages = <<>>
    /\ persona = Absent
    /\ selected_model_name = Absent
    /\ selected_model_provider = AbsentText
    /\ llm = NoLlm
    /\ result = AbsentText
    /\ error = Absent
    /\ http = NoHttp
    /\ hist = NoHist

\* A request has arrived at agent_endpoint.
Init ==
    /\ pc = "endpoint"
    /\ req \in Requests
    /\ groq_api_key \in BOOLEAN
    /\ backend \in {"never", "when_bound", "any"}
    /\ Fresh
    /\ unit = NoUnit
    /\ calls = NoCalls
    /\ states = NoStates

env == <<req, groq_api_key, backend, unit, calls, states>>

\* ---------------------------------------------------------------- actions

\* agent_endpoint calls get_response, which builds the graph and the initial
\* state and invokes the graph at START.
get_response ==
    /\ pc = "endpoint"
    /\ messages' = add_messages(<<>>, initial_state(req).messages)
    /\ pc' = static_edge("START")
    /\ UNCHANGED <<env, persona, selected_model_name, selected_model_provider,
                   llm, result, error, http, hist>>

\* The node "persona_router".
persona_router ==
    /\ pc = "persona_router"
    /\ LET r == persona_router_node(messages)
       IN  IF r.ok
           THEN /\ persona' = r.persona
                /\ hist' = [hist EXCEPT !.persona_writes = @ + 1]
                /\ pc' = static_edge("persona_router")
                /\ error' = error
           ELSE /\ error' = r.error
                /\ pc' = "raised"
                /\ UNCHANGED <<persona, hist>>
    /\ UNCHANGED <<env, messages, selected_model_name, selected_model_provider,
                   llm, result, http>>

\* The node "model_router".
model_router ==
    /\ pc = "model_router"
    /\ LET r == model_router_node(messages, persona)
       IN  IF r.ok
           THEN /\ selected_model_name' = r.name
                /\ selected_model_provider' = r.provider
                /\ hist' = [hist EXCEPT !.model_writes = @ + 1]
                /\ pc' = static_edge("model_router")
                /\ error' = error
           ELSE /\ error' = r.error
                /\ pc' = "raised"
                /\ UNCHANGED <<selected_model_name, selected_model_provider, hist>>
    /\ UNCHANGED <<env, messages, persona, llm, result, http>>

\* The node "agent", when make_llm raises.
agent_node_no_llm ==
    /\ pc = "agent"
    /\ LET made == make_llm(selected_model_name, selected_model_provider, groq_api_key)
       IN  /\ ~made.ok
           /\ error' = made.error
    /\ pc' = "raised"
    /\ hist' = [hist EXCEPT !.agent = @ + 1]
    /\ UNCHANGED <<env, messages, persona, selected_model_name,
                   selected_model_provider, llm, result, http>>

\* The node "agent", when llm.invoke raises (the call to the provider fails).
agent_node_invoke_fails ==
    /\ pc = "agent"
    /\ LET made == make_llm(selected_model_name, selected_model_provider, groq_api_key)
       IN  /\ made.ok
           /\ llm' = [model |-> made.model, bound |-> tools_bound(persona),
                      system_prompt |-> system_prompt_for(persona),
                      sent |-> invoke_input(persona, messages)]
    /\ error' = "APIError: llm.invoke failed"
    /\ pc' = "raised"
    /\ hist' = [hist EXCEPT !.agent = @ + 1, !.invoke = @ + 1]
    /\ UNCHANGED <<env, messages, persona, selected_model_name,
                   selected_model_provider, result, http>>

\* The node "agent", when the backend answers: the answer is appended and the
\* conditional edge picks the next node.
agent_node ==
    /\ pc = "agent"
    /\ LET made == make_llm(selected_model_name, selected_model_provider, groq_api_key)
       IN  /\ made.ok
           /\ llm' = [model |-> made.model, bound |-> tools_bound(persona),
                      system_prompt |-> system_prompt_for(persona),
                      sent |-> invoke_input(persona, messages)]
    /\ \E n \in ToolCallChoices(tools_bound(persona), hist.tools) :
          messages' = add_messages(messages,
                          agent_update(invoke_input(persona, messages),
                                       AIMessage(ReplyText(hist.invoke), n)))
    /\ pc' = edge_after_agent(messages')
    /\ hist' = [hist EXCEPT !.agent = @ + 1, !.invoke = @ + 1]
    /\ UNCHANGED <<env, persona, selected_model_name, selected_model_provider,
                   result, error, http>>

\* The node "tools": ToolNode runs tavily_search for each tool call of the
\* last message and appends the tool messages.
tools ==
    /\ pc = "tools"
    /\ \E out \in ToolMessages(messages[Len(messages)].tool_calls) :
          messages' = add_messages(messages, out)
    /\ pc' = static_edge("tools")
    /\ hist' = [hist EXCEPT !.tools = @ + 1]
    /\ UNCHANGED <<env, persona, selected_model_name, selected_model_provider,
                   llm, result, error, http>>

\* The graph reached END: get_response returns the final response.
get_response_return ==
    /\ pc = "END"
    /\ result' = final_response(messages)
    /\ pc' = "returned"
    /\ UNCHANGED <<env, messages, persona, selected_model_name,
                   selected_model_provider, llm, error, http, hist>>

\* agent_endpoint returns what get_response returned.
agent_endpoint_ok ==
    /\ pc = "returned"
    /\ http' = [status |-> 200, body |-> result]
    /\ pc' = "responded"
    /\ UNCHANGED <<env, messages, persona, selected_model_name,
                   selected_model_provider, llm, result, error, hist>>

\* agent_endpoint catches what get_response raised.
agent_endpoint_except ==
    /\ pc = "raised"
    /\ http' = [status |-> 500, body |-> <<"An internal error occurred: ", error>>]
    /\ pc' = "responded"
    /\ UNCHANGED <<env, messages, persona, selected_model_name,
                   selected_model_provider, llm, result, error, hist>>

Next ==
    \/ get_response
    \/ persona_router
    \/ model_router
    \/ agent_node_no_llm
    \/ agent_node_invoke_fails
    \/ agent_node
    \/ tools
    \/ get_response_return
    \/ agent_endpoint_ok
    \/ agent_endpoint_except

Spec == Init /\ [][Next]_vars

\* ---------------------------------------------------------- clean_snippet

\* Longest raw snippet drawn for clean_snippet.
MaxSnippet == 4

IsDigit(c) == c \in {"0","1","2","3","4","5","6","7","8","9"}
IsLetter(c) ==
    \E i \in 1..26 : UpperLetters[i] = c \/ LowerLetters[i] = c
IsSpace(c) == c \in {" ", "\n", "\r", "\t"}

\* Step 1: newlines, tabs and markdown characters become a space.
ReplaceJunk(s) ==
    [i \in 1..Len(s) |->
        IF s[i] \in {"\n", "\r", "\t", "*", "_", "|", "#"} THEN " " ELSE s[i]]

\* Step 2: re.sub(r'(\d)([a-zA-Z])', r'\1 \2', text): matches are taken from
\* the left and do not overlap.
RECURSIVE SplitDigitLetter(_, _)
SplitDigitLetter(s, i) ==
    IF i > Len(s) THEN <<>>
    ELSE IF i < Len(s) /\ IsDigit(s[i]) /\ IsLetter(s[i + 1])
         THEN <<s[i], " ", s[i + 1]>> \o SplitDigitLetter(s, i + 2)
    ELSE <<s[i]>> \o SplitDigitLetter(s, i + 1)

\* Step 3: re.sub(r'([a-zA-Z])(\d)', r'\1 \2', text)
RECURSIVE SplitLetterDigit(_, _)
SplitLetterDigit(s, i) ==
    IF i > Len(s) THEN <<>>
    ELSE IF i < Len(s) /\ IsLetter(s[i]) /\ IsDigit(s[i + 1])
         THEN <<s[i], " ", s[i + 1]>> \o SplitLetterDigit(s, i + 2)
    ELSE <<s[i]>> \o SplitLetterDigit(s, i + 1)

\* Step 4: re.sub(r'\[.*?\]', '', text): from the left, a "[" is removed
\* together with everything up to the nearest "]" after it.
RECURSIVE DropBrackets(_, _)
DropBrackets(s, i) ==
    IF i > Len(s) THEN <<>>
    ELSE IF s[i] = "[" /\ \E j \in (i + 1)..Len(s) : s[j] = "]"
         THEN LET close == CHOOSE j \in (i + 1)..Len(s) :
                              /\ s[j] = "]"
                              /\ \A k \in (i + 1)..(j - 1) : s[k] # "]"
              IN  DropBrackets(s, close + 1)
    ELSE <<s[i]>> \o DropBrackets(s, i + 1)

\* Step 5: re.sub(r'\s+', ' ', text).strip()
RECURSIVE CollapseSpaces(_, _)
CollapseSpaces(s, i) ==
    IF i > Len(s) THEN <<>>
    ELSE IF IsSpace(s[i])
         THEN IF i < Len(s) /\ IsSpace(s[i + 1])
              THEN CollapseSpaces(s, i + 1)
              ELSE <<" ">> \o CollapseSpaces(s, i + 1)
    ELSE <<s[i]>> \o CollapseSpaces(s, i + 1)

Strip(s) ==
    IF \A i \in 1..Len(s) : IsSpace(s[i]) THEN <<>>
    ELSE LET a == CHOOSE i \in 1..Len(s) :
                      ~IsSpace(s[i]) /\ \A k \in 1..(i - 1) : IsSpace(s[k])
             b == CHOOSE i \in 1..Len(s) :
                      ~IsSpace(s[i]) /\ \A k \in (i + 1)..Len(s) : IsSpace(s[k])
         IN  SubSeq(s, a, b)

\* A value that is not a str (None).
NoneValue == [is_str |-> FALSE, text |-> <<>>]
StrValue(t) == [is_str |-> TRUE, text |-> t]

\* clean_snippet: its five substitutions in order; "" for a non-string.
clean_snippet(value) ==
    IF ~value.is_str THEN <<>>
    ELSE LET s1 == ReplaceJunk(value.text)
             s2 == SplitDigitLetter(s1, 1)
             s3 == SplitLetterDigit(s2, 1)
             s4 == DropBrackets(s3, 1)
         IN  Strip(CollapseSpaces(s4, 1))

\* ---------------------------------------------------------- tavily_search

\* TavilySearchResults(max_results=5)
max_results_more == 5 + 1
max_results == 5

ErrorRecord(msg) ==
    [keys |-> {"error"}, error |-> msg, url |-> "<none>", content |-> <<>>]
ResultRecord(u, c) ==
    [keys |-> {"url", "content"}, error |-> "<none>", url |-> u, content |-> c]

NoResultsError == "The web search returned no results for that query. Please try rephrasing it."
SearchError == "An error occurred during the search"

\* tavily_search without the test for an empty result.
tavily_search_unguarded(response) ==
    IF response.kind = "raise" THEN <<ErrorRecord(SearchError)>>
    ELSE IF response.kind = "text" THEN <<ErrorRecord(SearchError)>>
    ELSE IF \E i \in 1..Len(response.items) : ~response.items[i].dict
    THEN <<ErrorRecord(SearchError)>>
    ELSE [i \in 1..Len(response.items) |->
             ResultRecord(response.items[i].url, clean_snippet(response.items[i].content))]

\* tavily_search on what tavily.invoke(query) does: it raises, hands back a
\* text instead of a list (iterating it fails with AttributeError on .get), or
\* hands back a list of results; an item that is not a dict fails the same way.
tavily_search(response) ==
    IF response.kind = "raise" THEN <<ErrorRecord(SearchError)>>
    ELSE IF response.kind = "text"
    THEN IF response.text = <<>> THEN <<ErrorRecord(NoResultsError)>>
         ELSE <<ErrorRecord(SearchError)>>
    ELSE IF Len(response.items) = 0 THEN <<ErrorRecord(NoResultsError)>>
    ELSE IF \E i \in 1..Len(response.items) : ~response.items[i].dict
    THEN <<ErrorRecord(SearchError)>>
    ELSE [i \in 1..Len(response.items) |->
             ResultRecord(response.items[i].url, clean_snippet(response.items[i].content))]

\* ------------------------------------- clean_snippet, tavily_search applied

SnippetAlphabet == {"4", "a", " ", "[", "]", "*"}

SnippetInputs ==
    {NoneValue} \cup {StrValue(t) : t \in SeqUpTo(SnippetAlphabet, MaxSnippet)}

\* What the provider may hand back as one result: a dict with a url and a raw
\* content or without content, or something that is not a dict.
RawItems ==
    [dict : {TRUE}, url : {"a.com", "b.com"},
     content : {StrValue(<<"4","a","*","[","x","]">>), NoneValue}]
    \cup {[dict |-> FALSE, url |-> "<none>", content |-> NoneValue]}

ProviderResponses ==
    {[kind |-> "raise", text |-> <<>>, items |-> <<>>]}
    \cup {[kind |-> "text", text |-> t, items |-> <<>>] : t \in {<<>>, <<"H","T","T","P">>}}
    \cup {[kind |-> "list", text |-> <<>>, items |-> items] :
             items \in SeqUpTo(RawItems, max_results)}

\* ------------------------------------------- the functions on their own

\* The characters of the texts the persona router is applied to: the letters
\* of the keywords "usd" and "inr" in both cases, and a space.
Alphabet == {"u","s","d","i","n","r","U","S","D","R"," "}

Texts == SeqUpTo(Alphabet, MaxLen)

\* A user turn as get_response builds it: plain, or with the image attached.
PlainTurn(t) == HumanMessage(StrContent(t))
ImageTurn(t) == HumanMessage(ListContent(<<TextPart(t), ImagePart>>))

\* Turn sequences for persona_router_node: nothing or one financial turn,
\* then the latest turn.
RouterInputs ==
    {<<>>} \cup
    {earlier \o <<last>> :
        earlier \in {<<>>, <<PlainTurn(<<"u","s","d">>)>>},
        last \in {PlainTurn(t) : t \in Texts} \cup {ImageTurn(t) : t \in Texts}}

Personas == {"Vision Agent", "Financial Analyst", "Creative Writer"}

SelectorInputs ==
    [persona : Personas,
     msgs : {<<PlainTurn(t)>> : t \in SampleTexts} \cup
            {<<ImageTurn(t)>> : t \in SampleTexts}]

ModelIds ==
    DOMAIN DEPRECATED_MODEL_MAP \cup
    {DEPRECATED_MODEL_MAP[k] : k \in DOMAIN DEPRECATED_MODEL_MAP} \cup
    {VisionModel, "llama-3.3-70b-versatile", "llama-3.1-8b-instant", "some-other-model"}

Providers == {GROQ, <<"g","r","o","q">>, <<"G","r","o","q">>,
              <<"O","P","E","N","A","I">>, <<>>}

FactoryInputs == [model_name : ModelIds, provider : Providers, key : BOOLEAN]

Pending == [ok |-> FALSE, error |-> "<not applied>"]

InitUnits ==
    /\ pc = "off"
    /\ req = NoRequest
    /\ groq_api_key = FALSE
    /\ backend = "never"
    /\ Fresh
    /\ calls = NoCalls
    /\ states = NoStates
    /\ \/ unit \in [fn : {"persona_router_node"}, arg : RouterInputs,
                    done : {FALSE}, out : {Pending}]
       \/ unit \in [fn : {"model_router_node"}, arg : SelectorInputs,
                    done : {FALSE}, out : {Pending}]
       \/ unit \in [fn : {"make_llm"}, arg : FactoryInputs,
                    done : {FALSE}, out : {Pending}]
       \/ unit \in [fn : {"clean_snippet"}, arg : SnippetInputs,
                    done : {FALSE}, out : {Pending}]
       \/ unit \in [fn : {"tavily_search"}, arg : ProviderResponses,
                    done : {FALSE}, out : {Pending}]

graph == <<pc, req, groq_api_key, backend, messages, persona, selected_model_name,
           selected_model_provider, llm, result, error, http, hist, calls, states>>

apply_persona_router_node ==
    /\ unit.fn = "persona_router_node"
    /\ ~unit.done
    /\ unit' = [unit EXCEPT !.done = TRUE, !.out = persona_router_node(unit.arg)]
    /\ UNCHANGED graph

apply_model_router_node ==
    /\ unit.fn = "model_router_node"
    /\ ~unit.done
    /\ unit' = [unit EXCEPT !.done = TRUE,
                            !.out = model_router_node(unit.arg.msgs, unit.arg.persona)]
    /\ UNCHANGED graph

apply_make_llm ==
    /\ unit.fn = "make_llm"
    /\ ~unit.done
    /\ unit' = [unit EXCEPT !.done = TRUE,
                            !.out = make_llm(unit.arg.model_name, unit.arg.provider,
                                             unit.arg.key)]
    /\ UNCHANGED graph

\* clean_snippet applied to a raw snippet, and once more to what it gave.
apply_clean_snippet ==
    /\ unit.fn = "clean_snippet"
    /\ ~unit.done
    /\ unit' = [unit EXCEPT !.done = TRUE,
                            !.out = [once |-> clean_snippet(unit.arg),
                                     twice |-> clean_snippet(StrValue(clean_snippet(unit.arg)))]]
    /\ UNCHANGED graph

apply_tavily_search ==
    /\ unit.fn = "tavily_search"
    /\ ~unit.done
    /\ unit' = [unit EXCEPT !.done = TRUE, !.out = tavily_search(unit.arg)]
    /\ UNCHANGED graph

NextUnits ==
    \/ apply_persona_router_node
    \/ apply_model_router_node
    \/ apply_make_llm
    \/ apply_clean_snippet
    \/ apply_tavily_search

SpecUnits == InitUnits /\ [][NextUnits]_vars

\* ------------------------------------------ get_response, two calls at once

\* The concurrent calls of get_response.
Calls == {1, 2}

\* Most tool rounds one of the concurrent calls is given.
MaxPairRounds == 1

\* get_response keeping one AgentState for all calls.
state_of_shared(call) == 1

\* The AgentState a call works on: initial_state is a local of get_response,
\* handed to the app it compiled itself.
state_of(call) == call

PairRequests ==
    [system_prompt : {"", "be brief"},
     messages : {<<>>, <<<<"h","i">>>>, <<<<"U","S","D">>>>},
     allow_search : BOOLEAN,
     image_data : {ImageNone, "aGk="}]

NoState ==
    [messages |-> <<>>, persona |-> Absent, selected_model_name |-> Absent,
     selected_model_provider |-> AbsentText]

\* The locals of a call that has not started: its arguments, where it is,
\* the nodes it went through, what the backend and the tools handed it, whether
\* a tool was bound, what it returned or raised.
NewCall(request) ==
    [req |-> request, pc |-> "start", path |-> <<>>, received |-> <<>>,
     rounds |-> 0, bound |-> FALSE, result |-> AbsentText, error |-> Absent]

InitPair ==
    /\ pc = "off"
    /\ req = NoRequest
    /\ groq_api_key \in BOOLEAN
    /\ backend \in {"never", "when_bound"}
    /\ Fresh
    /\ unit = NoUnit
    /\ \E r1 \in PairRequests, r2 \in PairRequests :
          calls = [c \in Calls |-> NewCall(IF c = 1 THEN r1 ELSE r2)]
    /\ states = [c \in Calls |-> NoState]

single == <<pc, req, groq_api_key, backend, messages, persona, selected_model_name,
            selected_model_provider, llm, result, error, http, hist, unit>>

\* The call moves on to a node.
Goto(c, node) == [calls[c] EXCEPT !.pc = node, !.path = Append(@, node)]

pair_get_response(c) ==
    /\ calls[c].pc = "start"
    /\ states' = [states EXCEPT ![state_of(c)] = initial_state(calls[c].req)]
    /\ calls' = [calls EXCEPT ![c] = Goto(c, static_edge("START"))]
    /\ UNCHANGED single

pair_persona_router(c) ==
    /\ calls[c].pc = "persona_router"
    /\ LET r == persona_router_node(states[state_of(c)].messages)
       IN  IF r.ok
           THEN /\ states' = [states EXCEPT ![state_of(c)].persona = r.persona]
                /\ calls' = [calls EXCEPT ![c] = Goto(c, static_edge("persona_router"))]
           ELSE /\ calls' = [calls EXCEPT ![c] = [Goto(c, "raised") EXCEPT !.error = r.error]]
                /\ UNCHANGED states
    /\ UNCHANGED single

pair_model_router(c) ==
    /\ calls[c].pc = "model_router"
    /\ LET st == states[state_of(c)]
           r == model_router_node(st.messages, st.persona)
       IN  IF r.ok
           THEN /\ states' = [states EXCEPT ![state_of(c)].selected_model_name = r.name,
                                            ![state_of(c)].selected_model_provider = r.provider]
                /\ calls' = [calls EXCEPT ![c] = Goto(c, static_edge("model_router"))]
           ELSE /\ calls' = [calls EXCEPT ![c] = [Goto(c, "raised") EXCEPT !.error = r.error]]
                /\ UNCHANGED states
    /\ UNCHANGED single

pair_agent_node_no_llm(c) ==
    /\ calls[c].pc = "agent"
    /\ LET st == states[state_of(c)]
           made == make_llm(st.selected_model_name, st.selected_model_provider, groq_api_key)
       IN  /\ ~made.ok
           /\ calls' = [calls EXCEPT ![c] = [Goto(c, "raised") EXCEPT !.error = made.error]]
    /\ UNCHANGED <<single, states>>

pair_agent_node_invoke_fails(c) ==
    /\ calls[c].pc = "agent"
    /\ LET st == states[state_of(c)]
           made == make_llm(st.selected_model_name, st.selected_model_provider, groq_api_key)
       IN  /\ made.ok
           /\ calls' = [calls EXCEPT ![c] =
                           [Goto(c, "raised") EXCEPT !.bound = tools_bound(st.persona),
                                                     !.error = "APIError: llm.invoke failed"]]
    /\ UNCHANGED <<single, states>>

\* The tool-call counts the backend may put in its answer to a concurrent call.
PairToolCallChoices(bound, rounds) ==
    IF rounds >= MaxPairRounds THEN {0}
    ELSE IF backend = "when_bound" /\ bound THEN {0, 1}
    ELSE {0}

pair_agent_node(c) ==
    /\ calls[c].pc = "agent"
    /\ LET st == states[state_of(c)]
           made == make_llm(st.selected_model_name, st.selected_model_provider, groq_api_key)
       IN  /\ made.ok
           /\ \E n \in PairToolCallChoices(tools_bound(st.persona), calls[c].rounds) :
                 LET ai_response == AIMessage(ReplyText(Len(calls[c].received)), n)
                     update == agent_update(invoke_input(st.persona, st.messages), ai_response)
                     after == add_messages(st.messages, update)
                 IN  /\ states' = [states EXCEPT ![state_of(c)].messages = after]
                     /\ calls' = [calls EXCEPT ![c] =
                                     [Goto(c, edge_after_agent(after)) EXCEPT
                                         !.bound = tools_bound(st.persona),
                                         !.received = Append(@, ai_response)]]
    /\ UNCHANGED single

pair_tools(c) ==
    /\ calls[c].pc = "tools"
    /\ LET st == states[state_of(c)]
       IN  \E out \in ToolMessages(st.messages[Len(st.messages)].tool_calls) :
              /\ states' = [states EXCEPT ![state_of(c)].messages = add_messages(st.messages, out)]
              /\ calls' = [calls EXCEPT ![c] =
                              [Goto(c, static_edge("tools")) EXCEPT
                                  !.rounds = @ + 1,
                                  !.received = @ \o out]]
    /\ UNCHANGED single

pair_get_response_return(c) ==
    /\ calls[c].pc = "END"
    /\ calls' = [calls EXCEPT ![c] =
                    [Goto(c, "returned") EXCEPT
                        !.result = final_response(states[state_of(c)].messages)]]
    /\ UNCHANGED <<single, states>>

NextPair ==
    \E c \in Calls :
        \/ pair_get_response(c)
        \/ pair_persona_router(c)
        \/ pair_model_router(c)
        \/ pair_agent_node_no_llm(c)
        \/ pair_agent_node_invoke_fails(c)
        \/ pair_agent_node(c)
        \/ pair_tools(c)
        \/ pair_get_response_return(c)

SpecPair == InitPair /\ [][NextPair]_vars

\* ------------------------------------------------------------------ claims

Last(s) == s[Len(s)]
IsPrefix(s, t) == Len(s) <= Len(t) /\ SubSeq(t, 1, Len(s)) = s

\* The graph reached END (the state Done), and whatever follows it.
Done == pc \in {"END", "returned"} \/ (pc = "responded" /\ http.status = 200)

\* The invocation left get_response with an exception.
Aborted == pc = "raised" \/ (pc = "responded" /\ http.status = 500)

\* No answer of the backend so far carries a tool call.
NoToolCallsEmitted == \A i \in 1..Len(messages) : messages[i].tool_calls = 0

\* C1 as written: an invocation whose backend never emits tool calls runs
\* the Generating step exactly once and reaches Done.  Stated on the finished
\* request, and only for requests that carry at least one turn: it ended in
\* Done, after exactly one Generating step and no tool round.
C1_Original ==
    (NoToolCallsEmitted /\ req.messages # <<>> /\ pc = "responded") =>
        (http.status = 200 /\ hist.agent = 1 /\ hist.tools = 0)

\* C1 amended: while the backend has emitted no tool call, ToolInvoking is
\* never entered and Generating runs at most once; a Generating step that
\* completes leads straight to Done, which is reached after exactly one
\* Generating step; otherwise the invocation aborts with the IndexError of an
\* empty turn list, the ValueError of make_llm or the failure of the backend
\* call, and Done is not reached.
C1_NoToolCallsOneGeneration ==
    NoToolCallsEmitted =>
        /\ pc # "tools"
        /\ hist.tools = 0
        /\ hist.agent <= 1
        /\ Done => (hist.agent = 1 /\ hist.invoke = 1 /\ error = Absent)
        /\ (hist.agent = 1 /\ error = Absent) => Done
        /\ Aborted <=> error # Absent
        /\ error \in {Absent, "IndexError: list index out of range",
                      "ValueError: GROQ_API_KEY not found",
                      "APIError: llm.invoke failed"}
        /\ (error = "IndexError: list index out of range") =>
               (req.messages = <<>> /\ hist.agent = 0)

C1_Witness ==
    /\ NoToolCallsEmitted
    /\ backend = "any"
    /\ pc = "responded"
    /\ http.status = 200
    /\ hist.agent = 1

\* C2 as written: the number of Generating/ToolInvoking rounds of an
\* invocation never exceeds a fixed maximum.  Stated for the largest cap that
\* is below what the modelled backend asks for: any invocation stays within
\* RoundCap tool rounds.
RoundCap == MaxToolRounds - 1

C3_NextAfterGenerating ==
    [][ /\ (pc = "agent" /\ messages' # messages) =>
             /\ Len(messages') = Len(messages) + 1
             /\ Last(messages').role = "ai"
             /\ pc' \in {"tools", "END"}
             /\ pc' = "tools" <=> Last(messages').tool_calls > 0
             /\ pc' = "END" <=> Last(messages').tool_calls = 0
        /\ (pc = "agent" /\ messages' = messages) => pc' = "raised"
        /\ pc = "tools" => pc' = "agent" ]_vars

C3_Witness ==
    /\ pc = "END"
    /\ hist.tools = 2
    /\ Last(messages).role = "ai"

\* The text and the image flag of a user turn, read off its content.
TurnText(m) ==
    IF m.content.kind = "str" THEN m.content.text
    ELSE (CHOOSE part \in {m.content.parts[i] : i \in 1..Len(m.content.parts)} :
              part.type = "text").text
TurnHasImage(m) ==
    /\ m.content.kind = "list"
    /\ ImagePart \in {m.content.parts[i] : i \in 1..Len(m.content.parts)}

\* The turn m with its text replaced by v.
WithText(m, v) == IF TurnHasImage(m) THEN ImageTurn(v) ELSE PlainTurn(v)

\* C4: persona_router_node decides by the latest turn only, image first,
\* then keyword, then default: Vision Agent when the latest turn has an
\* image; otherwise Financial Analyst iff the lower-cased text of the latest
\* turn contains a financial keyword; otherwise Creative Writer.  A text and
\* its lower-cased form get the same persona, so texts that differ in letter
\* case only are classified alike.
C4_PersonaByLatestTurn ==
    (unit.fn = "persona_router_node" /\ unit.done /\ unit.arg # <<>>) =>
        LET last == Last(unit.arg)
            keyword == \E j \in 1..Len(financial_keywords) :
                           Contains(Lower(TurnText(last)), financial_keywords[j])
        IN  /\ unit.out.ok
            /\ unit.out.persona \in Personas
            /\ TurnHasImage(last) => unit.out.persona = "Vision Agent"
            /\ ~TurnHasImage(last) =>
                   /\ unit.out.persona = "Financial Analyst" <=> keyword
                   /\ unit.out.persona = "Creative Writer" <=> ~keyword
            /\ persona_router_node(<<last>>) = unit.out
            /\ persona_router_node(<<WithText(last, Lower(TurnText(last)))>>) = unit.out

C4_Witness ==
    /\ unit.fn = "persona_router_node"
    /\ unit.done
    /\ unit.arg = <<PlainTurn(<<"u","s","d">>), PlainTurn(<<"i","n","R">>)>>
    /\ unit.out.persona = "Financial Analyst"

\* C5 as written: model_router_node yields a model for each of the three
\* personas with and without an image, and the vision model whenever the
\* latest turn has an image.
C5_SelectorTotal ==
    (unit.fn = "model_router_node" /\ unit.done) =>
        /\ unit.out.ok
        /\ TurnHasImage(Last(unit.arg.msgs)) => unit.out.name = VisionModel

\* C6: persona is absent until the node persona_router has run and the
\* selected model (name and provider) until model_router has run; each is
\* written once, persona first, both before the first Generating step, and
\* neither changes afterwards.
C6_SetOnce ==
    /\ [](/\ pc \in {"endpoint", "persona_router"} => persona = Absent
          /\ pc \in {"endpoint", "persona_router", "model_router"} =>
                 (selected_model_name = Absent /\ selected_model_provider = AbsentText)
          /\ hist.persona_writes = 0 <=> persona = Absent
          /\ hist.model_writes = 0 <=> selected_model_name = Absent
          /\ hist.model_writes = 0 <=> selected_model_provider = AbsentText
          /\ hist.persona_writes <= 1
          /\ hist.model_writes <= 1
          /\ hist.model_writes <= hist.persona_writes
          /\ hist.agent >= 1 => (hist.persona_writes = 1 /\ hist.model_writes = 1))
    /\ [][/\ persona' # persona => (pc = "persona_router" /\ persona = Absent)
          /\ <<selected_model_name, selected_model_provider>>' #
                 <<selected_model_name, selected_model_provider>> =>
                 (pc = "model_router" /\ selected_model_name = Absent /\ persona # Absent)
          /\ hist.persona_writes' = hist.persona_writes + 1 <=> persona' # persona
          /\ hist.model_writes' = hist.model_writes + 1 <=>
                 selected_model_name' # selected_model_name]_vars

C6_Witness ==
    /\ hist.tools = 2
    /\ hist.agent = 3
    /\ persona = "Financial Analyst"
    /\ selected_model_name = "llama-3.3-70b-versatile"
    /\ selected_model_provider = GROQ

\* C7: the turn sequence only grows at its end: in every step the old
\* sequence is a prefix of the new one, and the caller's turns stay first,
\* in order, as user messages with their texts.
C7_AppendOnly ==
    /\ [][IsPrefix(messages, messages')]_vars
    /\ [](pc \notin {"endpoint", "off"} =>
            /\ Len(messages) >= Len(req.messages)
            /\ \A i \in 1..Len(req.messages) :
                  /\ messages[i].role = "human"
                  /\ TurnText(messages[i]) = req.messages[i])

C7_Witness ==
    /\ Len(req.messages) = 2
    /\ Len(messages) = 5
    /\ messages[4].role = "tool"
    /\ messages[5].role = "ai"

\* C8: once the graph is at Done the last message is an assistant message
\* without tool calls, and what get_response returns (and the endpoint sends)
\* is the content of that message.
C8_DoneReturnsLast ==
    Done =>
        /\ Len(messages) > 0
        /\ Last(messages).role = "ai"
        /\ Last(messages).tool_calls = 0
        /\ pc # "END" => result = Last(messages).content.text
        /\ pc = "responded" => http.body = Last(messages).content.text

C8_Witness ==
    /\ pc = "returned"
    /\ hist.tools = 1
    /\ Len(messages) = 4
    /\ result = ReplyText(1)

\* C9 as written: the model name make_llm hands to ChatGroq is never a key of
\* DEPRECATED_MODEL_MAP.
C9_RewriteReachesFixedPoint ==
    (unit.fn = "make_llm" /\ unit.done /\ unit.out.ok) =>
        unit.out.model \notin DOMAIN DEPRECATED_MODEL_MAP

\* C10: when GROQ_API_KEY is missing, make_llm fails in the first Generating
\* step and the invocation aborts there: the backend is never invoked, no
\* assistant message is appended, no node runs afterwards, Done is not
\* reached, and the ValueError leaves get_response and becomes the 500 of
\* agent_endpoint.
C10_FactoryFailureAborts ==
    ~groq_api_key =>
        /\ hist.invoke = 0
        /\ llm = NoLlm
        /\ \A i \in 1..Len(messages) : messages[i].role = "human"
        /\ Len(messages) <= Len(req.messages)
        /\ hist.agent <= 1
        /\ hist.tools = 0
        /\ ~Done
        /\ result = AbsentText
        /\ hist.agent = 1 =>
              /\ pc \in {"raised", "responded"}
              /\ error = "ValueError: GROQ_API_KEY not found"
        /\ pc = "responded" =>
              /\ http.status = 500
              /\ http.body = <<"An internal error occurred: ", error>>

C10_Witness ==
    /\ ~groq_api_key
    /\ hist.agent = 1
    /\ pc = "responded"
    /\ http.status = 500
    /\ error = "ValueError: GROQ_API_KEY not found"

\* A tavily_search call of this invocation handed back its error record.
SearchFailed ==
    \E i \in 1..Len(messages) :
        messages[i].role = "tool" /\ messages[i].content.text = <<"e","r","r","o","r">>

\* C11 as written: a request ends with a 500 only when make_llm failed or
\* model_router_node could not pick a model; a failed backend call or a
\* failed search ends on the normal channel (a 200 with a text).  Stated for
\* requests that carry at least one turn.
C11_OnlyConfigFailuresAre500 ==
    (pc = "responded" /\ req.messages # <<>>) =>
        /\ http.status = 500 =>
               error \in {"ValueError: GROQ_API_KEY not found",
                          "ValueError: Unknown model provider",
                          "ValueError: Could not determine a suitable model"}
        /\ (error = "APIError: llm.invoke failed" \/ (SearchFailed /\ error = Absent)) =>
               (http.status = 200 /\ http.body # AbsentText)

\* C12 as written: a request whose turn list is empty is answered with the
\* apology string on the normal channel; no exception reaches agent_endpoint.
C12_EmptyTurnsGetApology ==
    req.messages = <<>> =>
        /\ pc # "raised"
        /\ error = Absent
        /\ pc = "responded" => (http.status = 200 /\ http.body = Apology)


\* ------------------------------------------------------------- C13 .. C15

\* The provider call failed: it raised, it handed back nothing, or what it
\* handed back could not be read as a list of result dicts.
ProviderFailed(r) ==
    \/ r.kind = "raise"
    \/ r.kind = "text"
    \/ r.items = <<>>
    \/ \E i \in 1..Len(r.items) : ~r.items[i].dict

\* C13: tavily_search always hands back a list: exactly one record carrying an
\* error field when the provider raised, gave nothing or gave a malformed
\* payload, and otherwise one record per provider result, in provider order,
\* with exactly the fields url and content (the content cleaned).
C13_SearchNeverRaises ==
    (unit.fn = "tavily_search" /\ unit.done) =>
        LET r == unit.arg
            out == unit.out
        IN  IF ProviderFailed(r)
            THEN Len(out) = 1 /\ out[1].keys = {"error"} /\ out[1].error # "<none>"
            ELSE /\ Len(out) = Len(r.items)
                 /\ \A i \in 1..Len(out) :
                        /\ out[i].keys = {"url", "content"}
                        /\ out[i].url = r.items[i].url
                        /\ out[i].content = clean_snippet(r.items[i].content)

\* Two results came back and were handed on in the provider's order.
C13_Witness ==
    /\ unit.fn = "tavily_search"
    /\ unit.done
    /\ unit.arg.kind = "list"
    /\ Len(unit.arg.items) = 2
    /\ unit.arg.items[1].dict /\ unit.arg.items[2].dict
    /\ unit.arg.items[1].url = "b.com" /\ unit.arg.items[2].url = "a.com"
    /\ unit.out[1].url = "b.com" /\ unit.out[2].url = "a.com"
    /\ unit.out[1].content = <<"4"," ","a">>

Adjacent(s) ==
    \E i \in 1..(Len(s) - 1) :
        \/ IsDigit(s[i]) /\ IsLetter(s[i + 1])
        \/ IsLetter(s[i]) /\ IsDigit(s[i + 1])

\* C15 as written: cleaning a cleaned snippet changes nothing, and a cleaned
\* snippet has no digit next to a letter.
C15_CleanIsIdempotent ==
    (unit.fn = "clean_snippet" /\ unit.done /\ unit.arg.is_str) =>
        /\ unit.out.twice = unit.out.once
        /\ ~Adjacent(unit.out.once)


\* ------------------------------------------------------------------- C16

\* C16: agent_node binds the search tool for "Financial Analyst" and for no
\* other persona, recognised or not; so with a backend that emits tool calls
\* only when a tool is bound, the "tools" node is never entered while the
\* persona is not "Financial Analyst".
C16_ToolsOnlyForAnalyst ==
    /\ \A p \in {"Vision Agent", "Creative Writer", "General Assistant", Absent} :
           ~tools_bound(p)
    /\ llm # NoLlm => (llm.bound <=> persona = "Financial Analyst")
    /\ (backend # "any" /\ persona # "Financial Analyst") =>
           /\ pc # "tools"
           /\ hist.tools = 0
           /\ \A i \in 1..Len(messages) :
                  messages[i].role # "tool" /\ messages[i].tool_calls = 0

\* A turn with a financial keyword and an image was answered by the Vision
\* Agent, no tool bound and no tool round, by a backend that would have called
\* a bound tool.
C16_Witness ==
    /\ pc = "responded"
    /\ http.status = 200
    /\ backend = "when_bound"
    /\ persona = "Vision Agent"
    /\ req.messages # <<>>
    /\ Last(req.messages) = <<"U","S","D">>
    /\ req.image_data = "aGk="
    /\ llm # NoLlm
    /\ ~llm.bound
    /\ hist.tools = 0


\* ------------------------------------------------------------------- C18

\* A Generating step in which the backend answered.
Generated ==
    pc = "agent" /\ pc' # "raised" /\ hist'.invoke = hist.invoke + 1

NoSystemMessage(msgs) == \A i \in 1..Len(msgs) : msgs[i].role # "system"

\* C18: a Generating step that succeeds appends exactly one assistant message
\* and leaves persona and selected model alone; what it sent to the backend
\* was the stored messages, with the persona's system prompt in front unless
\* the persona is "Vision Agent", and no system message is ever stored.
C18_GeneratingAppendsOneAnswer ==
    [][Generated =>
          /\ Len(messages') = Len(messages) + 1
          /\ SubSeq(messages', 1, Len(messages)) = messages
          /\ Last(messages').role = "ai"
          /\ NoSystemMessage(messages')
          /\ persona' = persona
          /\ selected_model_name' = selected_model_name
          /\ selected_model_provider' = selected_model_provider
          /\ IF persona = "Vision Agent"
             THEN llm'.sent = messages
             ELSE /\ Len(llm'.sent) = Len(messages) + 1
                  /\ llm'.sent[1].role = "system"
                  /\ llm'.sent[1].content.text = <<system_prompt_for(persona)>>
                  /\ Tail(llm'.sent) = messages]_vars

\* The second Generating step of a Financial Analyst request, after a tool
\* round, was sent the system prompt again and stored only its answer.
C18_Witness ==
    /\ pc = "responded"
    /\ http.status = 200
    /\ persona = "Financial Analyst"
    /\ hist.agent = 2
    /\ hist.tools = 1
    /\ llm.sent[1].role = "system"
    /\ Len(llm.sent) = Len(messages)
    /\ NoSystemMessage(messages)
    /\ Last(messages).role = "ai"


\* ------------------------------------------------------------------- C20

\* C20: should_continue never answers "agent": it is asked only right after
\* agent_node appended its answer, so the last message is an assistant message,
\* never a tool message; the first entry into "agent" comes from "model_router"
\* and every later one from "tools".
C20_NoSynthesizingStep ==
    [][/\ (pc = "agent" /\ pc' # "raised") =>
              /\ Last(messages').role = "ai"
              /\ should_continue(messages') # "agent"
              /\ pc' # "agent"
       /\ pc' = "agent" =>
              IF hist.agent = 0 THEN pc = "model_router" ELSE pc = "tools"]_vars

\* Generating was entered again from a tool round, and the decision after it
\* was taken on an assistant message that follows a tool message.
C20_Witness ==
    /\ pc = "END"
    /\ hist.agent = 2
    /\ hist.tools = 1
    /\ Len(messages) >= 2
    /\ messages[Len(messages) - 1].role = "tool"
    /\ Last(messages).role = "ai"
    /\ should_continue(messages) = "__end__"


\* ------------------------------------------------------------- C17, C19

\* The call went through the node.
Visited(c, node) == \E k \in 1..Len(calls[c].path) : calls[c].path[k] = node

\* What a call's AgentState must hold, worked out from its own arguments and
\* from what the backend and the tools handed to it, and from nothing else.
OwnTurns(c) == human_messages(calls[c].req.messages, calls[c].req.image_data)
OwnPersona(c) == persona_router_node(OwnTurns(c)).persona
OwnModel(c) == model_router_node(OwnTurns(c), OwnPersona(c))

OwnState(c) ==
    IF calls[c].pc = "start" THEN NoState
    ELSE [messages |-> OwnTurns(c) \o calls[c].received,
          persona |-> IF Visited(c, "model_router") THEN OwnPersona(c) ELSE Absent,
          selected_model_name |->
              IF Visited(c, "agent") THEN OwnModel(c).name ELSE Absent,
          selected_model_provider |->
              IF Visited(c, "agent") THEN OwnModel(c).provider ELSE AbsentText]

\* C17: with the steps of two calls of get_response interleaved in any order,
\* the messages, persona and selected model of each call are those its own
\* arguments and its own replies give; a step of one call leaves the state of
\* the other untouched, and no step writes the process-wide GROQ_API_KEY.
C17_CallsAreIsolated ==
    /\ [](\A c \in Calls : states[c] = OwnState(c))
    /\ [][/\ \A c \in Calls : calls'[c] = calls[c] => states'[c] = states[c]
          /\ groq_api_key' = groq_api_key]_vars

\* Two different requests half way through at the same time: one in its tool
\* round as Financial Analyst, the other routed to the Vision Agent.
C17_Witness ==
    /\ calls # NoCalls
    /\ calls[1].pc = "tools"
    /\ calls[2].pc = "model_router"
    /\ states[1].persona = "Financial Analyst"
    /\ states[2].persona = "Vision Agent"
    /\ Len(states[1].messages) = 2
    /\ Len(states[2].messages) = 1

\* The two calls were given the same turns and the same image.
SameTurns ==
    /\ calls[1].req.messages = calls[2].req.messages
    /\ calls[1].req.image_data = calls[2].req.image_data

\* C19: two calls of get_response that differ at most in allow_search and
\* system_prompt, and were handed the same replies so far, went through the
\* same nodes, hold the same state, bound the same tools and returned or
\* raised the same.
C19_FlagsHaveNoEffect ==
    (/\ calls # NoCalls
     /\ SameTurns
     /\ calls[1].received = calls[2].received
     /\ Len(calls[1].path) = Len(calls[2].path)) =>
        /\ calls[1].path = calls[2].path
        /\ states[1] = states[2]
        /\ calls[1].bound = calls[2].bound
        /\ calls[1].result = calls[2].result
        /\ calls[1].error = calls[2].error

\* A Financial Analyst turn sent once with allow_search false and a system
\* prompt and once with allow_search true and none: both bound the tool, had
\* their tool round and returned the same.
C19_Witness ==
    /\ calls # NoCalls
    /\ SameTurns
    /\ ~calls[1].req.allow_search
    /\ calls[2].req.allow_search
    /\ calls[1].req.system_prompt = "be brief"
    /\ calls[2].req.system_prompt = ""
    /\ states[1].persona = "Financial Analyst"
    /\ calls[1].pc = "returned" /\ calls[2].pc = "returned"
    /\ calls[1].bound /\ calls[2].bound
    /\ Visited(1, "tools") /\ Visited(2, "tools")
    /\ calls[1].result = calls[2].result
    /\ calls[1].result # AbsentText


\* ------------------------------------------------------------------- C21

\* C21: in a request with at least one turn the two routers read the same
\* last message, so they agree on whether it carries an image: once the model
\* is selected, the persona is "Vision Agent" exactly when the vision model
\* is selected, "Financial Analyst" has llama-3.3-70b-versatile, "Creative
\* Writer" has llama-3.1-8b-instant, and model_router_node never raises its
\* ValueError.
C21_RoutersAgree ==
    req.messages # <<>> =>
        /\ error # "ValueError: Could not determine a suitable model"
        /\ hist.model_writes > 0 =>
               /\ persona = "Vision Agent" <=> selected_model_name = VisionModel
               /\ persona = "Vision Agent" <=>
                      HasImagePart(messages[Len(req.messages)].content)
               /\ persona = "Financial Analyst" =>
                      selected_model_name = "llama-3.3-70b-versatile"
               /\ persona = "Creative Writer" =>
                      selected_model_name = "llama-3.1-8b-instant"
               /\ persona \in {"Vision Agent", "Financial Analyst", "Creative Writer"}

\* Two turns with an image on the last: the model has just been selected,
\* the Vision Agent with the vision model.
C21_Witness ==
    /\ pc = "agent"
    /\ hist.agent = 0
    /\ hist.model_writes = 1
    /\ Len(req.messages) = 2
    /\ req.image_data = "aGk="
    /\ persona = "Vision Agent"
    /\ selected_model_name = VisionModel
    /\ ~HasImagePart(messages[1].content)
    /\ HasImagePart(messages[2].content)

====
